---- MODULE Spec2Model ----
(***************************************************************************)
(* A model of promy.py: promises with cancellation and notification.       *)
(*                                                                         *)
(* Every function of the source is an operator that takes the whole        *)
(* program state as a record s and returns the state after the call, so    *)
(* that a call chain of the source is a composition of operators and one   *)
(* action is one complete call made by the user, by a foreign thenable or  *)
(* by the scheduler (jsruntime.set_timeout, a FIFO of zero-delay timers).  *)
(***************************************************************************)
EXTENDS Naturals, Sequences, FiniteSets

(***************************************************************************)
(* Bounds of the model.                                                    *)
(***************************************************************************)
\* Promise objects that are ever constructed (by the user or by then).
MaxPromises == 3
\* Promise objects that the user constructs; the others come from then.
MaxConstructed == 1
\* Adoptions (value.then calls) that the user or a thenable may start.
MaxAdopt == 2
\* notify calls accepted on one promise.
MaxNotify == 2

Promises == 1 .. MaxPromises

(***************************************************************************)
(* Values.  Every Python object the model passes around is a record        *)
(* [t, v]: t is its kind and v tells objects of one kind apart.            *)
(***************************************************************************)
None == [t |-> "None", v |-> 0]
Plain(n) == [t |-> "plain", v |-> n]
\* An instance of class Promise: the promise object number p.
PromiseV(p) == [t |-> "Promise", v |-> p]
\* A foreign object whose attribute then is a plain function.
ThenableV(k) == [t |-> "thenable", v |-> k]
\* The CancelException built by _cancel(p), the TypeError built by
\* _handle_thenable(p, p), and an exception raised by user code.
CancelException(p) == [t |-> "CancelException", v |-> p]
TypeError(p) == [t |-> "TypeError", v |-> p]
Error(n) == [t |-> "Error", v |-> n]

\* The foreign thenables: 1 has a cancel function, 2 has a cancel function
\* that raises, 3 has no cancel attribute and its then raises.
Thenables == {1, 2, 3}
HasCancel(k) == k \in {1, 2}
CancelRaises(k) == k = 2
ThenRaises(k) == k = 3
\* The exception that thenable k's then, or its cancel, raises.
ThenableError(k) == Error(k)

\* The value exposes a callable attribute then.
HasCallableThen(value) == value.t \in {"Promise", "thenable"}

\* inspect.isfunction(getattr(value, "then", None)): true of a plain
\* function only.  Promise.then read through an instance is a bound method,
\* for which isfunction answers False.
isfunction_then(value) == value.t = "thenable"

\* inspect.isfunction(getattr(value, "cancel", None))
isfunction_cancel(value) == value.t = "thenable" /\ HasCancel(value.v)

(***************************************************************************)
(* User callbacks: what the user passes as done, fail, progress or         *)
(* canceller.  "None" is no function; the others are functions:            *)
(*   "f"        returns a plain value computed from its argument,          *)
(*   "raise"    raises Error(0),                                           *)
(*   "own"      returns the promise that the then call itself returned,    *)
(*   "thenable" returns the foreign thenable 1,                            *)
(*   "resub"    calls then on the promise it listens to and returns its    *)
(*              argument (a progress callback).                            *)
(***************************************************************************)
Cancellers == {"None", "raise"}

isfunction(callback) == callback # "None"

\* The function "f": a plain value is mapped to the next plain value,
\* anything else to Plain(0).
F(x) == IF x.t = "plain" THEN Plain(x.v + 1) ELSE Plain(0)

\* callback(detail), called for the promise then_promise of its then call:
\* whether it raised, and the value returned or the exception raised.
Call(callback, then_promise, detail) ==
    CASE callback = "f" -> [raised |-> FALSE, val |-> F(detail)]
      [] callback = "raise" -> [raised |-> TRUE, val |-> Error(0)]
      [] callback = "own" -> [raised |-> FALSE, val |-> PromiseV(then_promise)]
      [] callback = "thenable" -> [raised |-> FALSE, val |-> ThenableV(1)]
      [] callback = "resub" -> [raised |-> FALSE, val |-> detail]

(***************************************************************************)
(* The state.                                                              *)
(***************************************************************************)
EventTypes == {"promise:resolved", "promise:rejected", "promise:notified",
               "promise:cancelled"}

VARIABLES
    nPromises,           \* Promise objects constructed so far: 1 .. nPromises
    _settled,            \* Promise._settled
    _fulfilled,          \* Promise._fulfilled
    _rejected,           \* Promise._rejected
    _fulfillment_value,  \* Promise._fulfillment_value
    _rejected_reason,    \* Promise._rejected_reason
    _events,             \* Promise._events: per event type, its listeners
    closures,            \* promises whose resolve, reject, notify the user holds
    timers,              \* the scheduler's FIFO of pending set_timeout(fn, 0)
    adoptions,           \* one entry per value.then(on_done, on_fail,
                         \* on_progress) made by _handle_thenable: the promise,
                         \* the thenable and the closure cell resolved[0]
    \* History: what happened, kept for the properties only.
    thens,               \* per promise made by then: the call that made it
    calls,               \* per promise made by then: the calls of its callbacks
    reactions,           \* per promise: entries into _invoke_callback for it
    order,               \* the promises of those entries, in their order
    scheduled,           \* per promise: resolved/rejected emissions scheduled
    notified,            \* per promise: values of the notified emissions scheduled
    emitted,             \* per promise: notified emissions run
    lateEmitted,         \* per promise: notified emissions run while settled
    finalEmitted,        \* per promise: resolved/rejected emission has run
    cancellerRan,        \* per promise: calls of its canceller
    cancelCalls,         \* per foreign thenable: calls of its cancel
    uncaught             \* an exception left a scheduled task or a user call

vars == << nPromises, _settled, _fulfilled, _rejected, _fulfillment_value,
           _rejected_reason, _events, closures, timers, adoptions, thens,
           calls, reactions, order, scheduled, notified, emitted, lateEmitted,
           finalEmitted, cancellerRan, cancelCalls, uncaught >>

\* The state as one record, threaded through the operators below.  exc is
\* the exception that is propagating out of the call being modelled.
Cur ==
    [ nPromises |-> nPromises, _settled |-> _settled,
      _fulfilled |-> _fulfilled, _rejected |-> _rejected,
      _fulfillment_value |-> _fulfillment_value,
      _rejected_reason |-> _rejected_reason, _events |-> _events,
      closures |-> closures, timers |-> timers, adoptions |-> adoptions,
      thens |-> thens, calls |-> calls, reactions |-> reactions,
      order |-> order,
      scheduled |-> scheduled, notified |-> notified, emitted |-> emitted,
      lateEmitted |-> lateEmitted, finalEmitted |-> finalEmitted,
      cancellerRan |-> cancellerRan, cancelCalls |-> cancelCalls,
      uncaught |-> uncaught, exc |-> FALSE ]

\* The call returned to the scheduler or to the user in state s: an
\* exception still propagating is uncaught.
Commit(s) ==
    /\ nPromises' = s.nPromises
    /\ _settled' = s._settled
    /\ _fulfilled' = s._fulfilled
    /\ _rejected' = s._rejected
    /\ _fulfillment_value' = s._fulfillment_value
    /\ _rejected_reason' = s._rejected_reason
    /\ _events' = s._events
    /\ closures' = s.closures
    /\ timers' = s.timers
    /\ adoptions' = s.adoptions
    /\ thens' = s.thens
    /\ calls' = s.calls
    /\ reactions' = s.reactions
    /\ order' = s.order
    /\ scheduled' = s.scheduled
    /\ notified' = s.notified
    /\ emitted' = s.emitted
    /\ lateEmitted' = s.lateEmitted
    /\ finalEmitted' = s.finalEmitted
    /\ cancellerRan' = s.cancellerRan
    /\ cancelCalls' = s.cancelCalls
    /\ uncaught' = (s.uncaught \/ s.exc)

NoThen == [parent |-> 0, done |-> "None", fail |-> "None",
           progress |-> "None", late |-> FALSE, regEmitted |-> 0,
           regNotified |-> 0]

NoEvents == [tipe \in EventTypes |-> << >>]

(***************************************************************************)
(* Listeners and scheduled tasks.  A listener is one of the closures the   *)
(* source registers with _on:                                              *)
(*   "tryer"       Promise.__init__.tryer of promise tp, canceller cb,     *)
(*   "on_cancel"   _handle_thenable.on_cancel for the thenable number tp,  *)
(*   "on_done", "on_fail", "on_progress"   the closures of Promise.then    *)
(*                 for its then_promise tp and its callback cb,            *)
(*   "user"        a function cb that the user registered with _on.        *)
(* A task is one fn handed to _async: the lambda of _fulfill, _reject,     *)
(* _notify or _cancel that emits tipe on promise p with detail, or the     *)
(* closure on_done / on_fail of Promise.then on a settled promise p.       *)
(***************************************************************************)
Listener(k, tp, cb) == [k |-> k, tp |-> tp, cb |-> cb]

EmitTask(p, tipe, detail) ==
    [k |-> "emit", p |-> p, tipe |-> tipe, tp |-> 0, cb |-> "None",
     detail |-> detail]

LateTask(k, p, tp, cb) ==
    [k |-> k, p |-> p, tipe |-> "", tp |-> tp, cb |-> cb, detail |-> None]

\* _on(obj, tipe, listener).  The source keeps a lone listener bare and
\* turns it into a list when a second one comes; both shapes are the
\* sequence of the listeners in the order they were added.
_on(s, obj, tipe, listener) ==
    [s EXCEPT !._events[obj][tipe] = Append(@, listener)]

\* _async(fn): set_timeout(fn, 0) appends to the scheduler's FIFO.
_async(s, task) == [s EXCEPT !.timers = Append(@, task)]

\* _fulfill that emits the rejected event instead of the resolved one.
_fulfill_wrong_event(s, promise, value) ==
    IF s._settled[promise] THEN s
    ELSE _async([s EXCEPT !._fulfilled[promise] = TRUE,
                          !._settled[promise] = TRUE,
                          !._fulfillment_value[promise] = value,
                          !.scheduled[promise] = @ + 1],
                EmitTask(promise, "promise:rejected", value))

\* _fulfill(promise, value)
_fulfill(s, promise, value) ==
    IF s._settled[promise] THEN s
    ELSE _async([s EXCEPT !._fulfilled[promise] = TRUE,
                          !._settled[promise] = TRUE,
                          !._fulfillment_value[promise] = value,
                          !.scheduled[promise] = @ + 1],
                EmitTask(promise, "promise:resolved", value))

\* _reject without its first line, the test of promise._settled.
_reject_unguarded(s, promise, value) ==
    _async([s EXCEPT !._rejected[promise] = TRUE,
                     !._settled[promise] = TRUE,
                     !._rejected_reason[promise] = value,
                     !.scheduled[promise] = @ + 1],
           EmitTask(promise, "promise:rejected", value))

\* _reject(promise, value)
_reject(s, promise, value) ==
    IF s._settled[promise] THEN s
    ELSE _async([s EXCEPT !._rejected[promise] = TRUE,
                          !._settled[promise] = TRUE,
                          !._rejected_reason[promise] = value,
                          !.scheduled[promise] = @ + 1],
                EmitTask(promise, "promise:rejected", value))

\* _notify without its first line, the test of promise._settled.
_notify_unguarded(s, promise, value) ==
    _async([s EXCEPT !.notified[promise] = Append(@, value)],
           EmitTask(promise, "promise:notified", value))

\* _notify(promise, value)
_notify(s, promise, value) ==
    IF s._settled[promise] THEN s
    ELSE _async([s EXCEPT !.notified[promise] = Append(@, value)],
                EmitTask(promise, "promise:notified", value))

\* _handle_thenable without the test promise is value.
_handle_thenable_no_self(s, promise, value) ==
    IF isfunction_then(value)
    THEN LET s1 == _on(s, promise, "promise:cancelled",
                       Listener("on_cancel", value.v, "None"))
         IN IF ThenRaises(value.v)
            THEN [s |-> _reject(s1, promise, ThenableError(value.v)),
                  handled |-> TRUE]
            ELSE [s |-> [s1 EXCEPT !.adoptions =
                            Append(@, [promise |-> promise, value |-> value.v,
                                       resolved |-> FALSE])],
                  handled |-> TRUE]
    ELSE [s |-> s, handled |-> FALSE]

\* _handle_thenable(promise, value): the state after the call and the
\* value returned.  value.then(on_done, on_fail, on_progress) of a foreign
\* thenable keeps the three closures (an entry of adoptions) or raises.
_handle_thenable(s, promise, value) ==
    IF value = PromiseV(promise)
    THEN [s |-> _reject(s, promise, TypeError(promise)), handled |-> TRUE]
    ELSE IF isfunction_then(value)
    THEN LET s1 == _on(s, promise, "promise:cancelled",
                       Listener("on_cancel", value.v, "None"))
         IN IF ThenRaises(value.v)
            THEN [s |-> _reject(s1, promise, ThenableError(value.v)),
                  handled |-> TRUE]
            ELSE [s |-> [s1 EXCEPT !.adoptions =
                            Append(@, [promise |-> promise, value |-> value.v,
                                       resolved |-> FALSE])],
                  handled |-> TRUE]
    ELSE [s |-> s, handled |-> FALSE]

\* _resolve without the test promise is value: a promise resolved with
\* itself goes through _handle_thenable like any other value.
_resolve_no_guard(s, promise, value) ==
    LET h == _handle_thenable(s, promise, value)
    IN IF h.handled THEN h.s ELSE _fulfill(h.s, promise, value)

\* _resolve(promise, value)
_resolve(s, promise, value) ==
    IF value = PromiseV(promise) THEN _fulfill(s, promise, value)
    ELSE LET h == _handle_thenable(s, promise, value)
         IN IF h.handled THEN h.s ELSE _fulfill(h.s, promise, value)

\* The resolver argument mixed up: the pass-through of a fulfilment value
\* rejects and that of a rejection reason resolves.
ApplyResolver_swapped(resolver, s, promise, value) ==
    IF resolver = "_resolve" THEN _reject(s, promise, value)
    ELSE _resolve(s, promise, value)

\* The resolver argument of _invoke_callback: _resolve or _reject.
ApplyResolver(resolver, s, promise, value) ==
    IF resolver = "_resolve" THEN _resolve(s, promise, value)
    ELSE _reject(s, promise, value)

\* _invoke_callback without its test of promise._settled.
_invoke_callback_unguarded(s, resolver, promise, callback, detail) ==
    LET s0 == [s EXCEPT !.reactions[promise] = @ + 1,
                        !.order = Append(@, promise)]
        has_callback == isfunction(callback)
        r == IF has_callback THEN Call(callback, promise, detail)
             ELSE [raised |-> FALSE, val |-> detail]
        succeeded == has_callback /\ ~r.raised
        failed == has_callback /\ r.raised
        value == IF failed THEN None ELSE r.val
        s1 == IF has_callback
              THEN [s0 EXCEPT !.calls[promise] =
                      Append(@, [h |-> IF resolver = "_resolve"
                                        THEN "done" ELSE "fail",
                                 arg |-> detail,
                                 raised |-> r.raised])]
              ELSE s0
        h == _handle_thenable(s1, promise, value)
    IN IF h.handled THEN h.s
       ELSE IF has_callback /\ succeeded
       THEN _resolve(h.s, promise, value)
       ELSE IF failed THEN _reject(h.s, promise, r.val)
       ELSE ApplyResolver(resolver, h.s, promise, value)

\* _invoke_callback without the try ... except around the call of the
\* callback: what the callback raises leaves _invoke_callback.
_invoke_callback_no_except(s, resolver, promise, callback, detail) ==
    LET s0 == [s EXCEPT !.reactions[promise] = @ + 1,
                        !.order = Append(@, promise)]
    IN IF s._settled[promise] THEN s0
       ELSE LET has_callback == isfunction(callback)
                r == IF has_callback THEN Call(callback, promise, detail)
                     ELSE [raised |-> FALSE, val |-> detail]
                s1 == IF has_callback
                      THEN [s0 EXCEPT !.calls[promise] =
                              Append(@, [h |-> IF resolver = "_resolve"
                                                THEN "done" ELSE "fail",
                                         arg |-> detail,
                                         raised |-> r.raised])]
                      ELSE s0
                h == _handle_thenable(s1, promise, r.val)
            IN IF r.raised THEN [s1 EXCEPT !.exc = TRUE]
               ELSE IF h.handled THEN h.s
               ELSE IF has_callback THEN _resolve(h.s, promise, r.val)
               ELSE ApplyResolver(resolver, h.s, promise, r.val)

\* _invoke_callback(resolver, promise, callback, event), detail being
\* event["detail"].  The branch without callback assigns the misspelt name
\* succeded, so succeeded is true only after a callback returned.
_invoke_callback(s, resolver, promise, callback, detail) ==
    LET s0 == [s EXCEPT !.reactions[promise] = @ + 1,
                        !.order = Append(@, promise)]
    IN IF s._settled[promise] THEN s0
       ELSE LET has_callback == isfunction(callback)
                r == IF has_callback THEN Call(callback, promise, detail)
                     ELSE [raised |-> FALSE, val |-> detail]
                succeeded == has_callback /\ ~r.raised
                failed == has_callback /\ r.raised
                value == IF failed THEN None ELSE r.val
                s1 == IF has_callback
                      THEN [s0 EXCEPT !.calls[promise] =
                              Append(@, [h |-> IF resolver = "_resolve"
                                                THEN "done" ELSE "fail",
                                         arg |-> detail,
                                         raised |-> r.raised])]
                      ELSE s0
                h == _handle_thenable(s1, promise, value)
            IN IF h.handled THEN h.s
               ELSE IF has_callback /\ succeeded
               THEN _resolve(h.s, promise, value)
               ELSE IF failed THEN _reject(h.s, promise, r.val)
               ELSE ApplyResolver(resolver, h.s, promise, value)

\* Promise.__init__(self, executor, canceller), executor being a function
\* (otherwise the constructor raises TypeError to its caller and no promise
\* comes into being: the guard of the actions that construct).  The
\* executor keeps resolve, reject and notify for later ("keep"), raises
\* Error(0) ("raise") or does nothing ("_empty_function").  The new promise
\* is number s.nPromises + 1.
Promise__init__(s, executor, canceller) ==
    LET self == s.nPromises + 1
        s1 == [s EXCEPT !.nPromises = self]
        s2 == IF isfunction(canceller)
              THEN _on(s1, self, "promise:cancelled",
                       Listener("tryer", self, canceller))
              ELSE s1
    IN IF executor = "raise" THEN _reject(s2, self, Error(0))
       ELSE IF executor = "keep"
       THEN [s2 EXCEPT !.closures = @ \cup {self}]
       ELSE s2

\* Promise.then that runs the reaction of a settled promise at once
\* instead of handing it to _async.
Promise_then_sync(s, self, done, fail, progress) ==
    LET then_promise == s.nPromises + 1
        s1 == Promise__init__(s, "_empty_function", "None")
        s2 == [s1 EXCEPT !.thens[then_promise] =
                 [parent |-> self, done |-> done, fail |-> fail,
                  progress |-> progress, late |-> s._settled[self],
                  regEmitted |-> s.emitted[self],
                  regNotified |-> Len(s.notified[self])]]
        s3 == IF s2._settled[self]
              THEN IF s2._fulfilled[self]
                   THEN _invoke_callback(s2, "_resolve", then_promise, done,
                                         s2._fulfillment_value[self])
                   ELSE _invoke_callback(s2, "_reject", then_promise, fail,
                                         s2._rejected_reason[self])
              ELSE _on(_on(s2, self, "promise:resolved",
                           Listener("on_done", then_promise, done)),
                       self, "promise:rejected",
                       Listener("on_fail", then_promise, fail))
    IN _on(s3, self, "promise:notified",
           Listener("on_progress", then_promise, progress))

\* Promise.then(self, done, fail, progress); then_promise is built with
\* the executor _empty_function, which does nothing.
Promise_then(s, self, done, fail, progress) ==
    LET then_promise == s.nPromises + 1
        s1 == Promise__init__(s, "_empty_function", "None")
        s2 == [s1 EXCEPT !.thens[then_promise] =
                 [parent |-> self, done |-> done, fail |-> fail,
                  progress |-> progress, late |-> s._settled[self],
                  regEmitted |-> s.emitted[self],
                  regNotified |-> Len(s.notified[self])]]
        s3 == IF s2._settled[self]
              THEN LET a == IF s2._fulfilled[self]
                            THEN _async(s2, LateTask("on_done", self,
                                                     then_promise, done))
                            ELSE s2
                   IN IF a._rejected[self]
                      THEN _async(a, LateTask("on_fail", self,
                                              then_promise, fail))
                      ELSE a
              ELSE _on(_on(s2, self, "promise:resolved",
                           Listener("on_done", then_promise, done)),
                       self, "promise:rejected",
                       Listener("on_fail", then_promise, fail))
    IN _on(s3, self, "promise:notified",
           Listener("on_progress", then_promise, progress))

\* What a call of the callback does besides returning or raising.  The
\* progress callback "resub" subscribes again: while fewer than MaxPromises
\* promises exist it calls then(None, None, f) on the promise that its own
\* then call was made on.
CallEffect(s, callback, then_promise) ==
    IF callback = "resub" /\ s.nPromises < MaxPromises
    THEN Promise_then(s, s.thens[then_promise].parent, "None", "None", "f")
    ELSE s

\* _invoke_notify_callback without the try ... except around the call of
\* the callback.
_invoke_notify_callback_no_except(s, promise, callback, detail) ==
    IF s._settled[promise] THEN s
    ELSE IF isfunction(callback)
    THEN LET r == Call(callback, promise, detail)
             s1 == [CallEffect(s, callback, promise) EXCEPT !.calls[promise] =
                      Append(@, [h |-> "progress", arg |-> detail,
                                 raised |-> r.raised])]
         IN IF r.raised THEN [s1 EXCEPT !.exc = TRUE]
            ELSE _notify(s1, promise, r.val)
    ELSE _notify(s, promise, detail)

\* _invoke_notify_callback(promise, callback, event)
_invoke_notify_callback(s, promise, callback, detail) ==
    IF s._settled[promise] THEN s
    ELSE IF isfunction(callback)
    THEN LET r == Call(callback, promise, detail)
             s1 == [CallEffect(s, callback, promise) EXCEPT !.calls[promise] =
                      Append(@, [h |-> "progress", arg |-> detail,
                                 raised |-> r.raised])]
         IN IF r.raised THEN s1 ELSE _notify(s1, promise, r.val)
    ELSE _notify(s, promise, detail)

\* on_cancel without its try ... except: what value.cancel() raises leaves
\* the listener.
on_cancel_no_except(s, value) ==
    IF isfunction_cancel(value)
    THEN LET s1 == [s EXCEPT !.cancelCalls[value.v] = @ + 1]
         IN IF CancelRaises(value.v) THEN [s1 EXCEPT !.exc = TRUE] ELSE s1
    ELSE s

\* _handle_thenable.on_cancel() for the thenable value: value.cancel() is
\* called if it is a function, and what it raises is dropped.
on_cancel(s, value) ==
    IF isfunction_cancel(value)
    THEN [s EXCEPT !.cancelCalls[value.v] = @ + 1]
    ELSE s

\* One listener called with the event whose detail is given.
CallListener(s, l, detail) ==
    CASE l.k = "tryer" ->
           \* try: canceller() except Exception: pass
           [s EXCEPT !.cancellerRan[l.tp] = @ + 1]
      [] l.k = "on_cancel" -> on_cancel(s, ThenableV(l.tp))
      [] l.k = "on_done" ->
           _invoke_callback(s, "_resolve", l.tp, l.cb, detail)
      [] l.k = "on_fail" ->
           _invoke_callback(s, "_reject", l.tp, l.cb, detail)
      [] l.k = "on_progress" ->
           _invoke_notify_callback(s, l.tp, l.cb, detail)
      [] l.k = "user" ->
           \* a function of the user: what it raises leaves the listener
           IF Call(l.cb, l.tp, detail).raised
           THEN [s EXCEPT !.exc = TRUE]
           ELSE s

\* for fun in funs: fun(event), from the i-th listener on.  An exception
\* out of a listener ends the loop and leaves _emit.
RECURSIVE EmitLoop(_, _, _, _)
EmitLoop(s, funs, i, detail) ==
    IF i > Len(funs) \/ s.exc THEN s
    ELSE EmitLoop(CallListener(s, funs[i], detail), funs, i + 1, detail)

\* The loop of _emit over the list itself instead of a copy of it.
RECURSIVE EmitLoopLive(_, _, _, _, _)
EmitLoopLive(s, obj, tipe, i, detail) ==
    IF i > Len(s._events[obj][tipe]) \/ s.exc THEN s
    ELSE EmitLoopLive(CallListener(s, s._events[obj][tipe][i], detail),
                      obj, tipe, i + 1, detail)

\* _emit without the copy funs = [x for x in funs]: a listener added while
\* the emission runs is called by it.
_emit_live(s, obj, tipe, detail) == EmitLoopLive(s, obj, tipe, 1, detail)

\* _emit(obj, tipe, {"detail": detail}): the listeners are those present
\* when the emission starts.
_emit(s, obj, tipe, detail) == EmitLoop(s, s._events[obj][tipe], 1, detail)

\* _cancel that hands the cancelled emission to _async, as it does the
\* rejected one, instead of running it at once.
_cancel_deferred(s, promise) ==
    LET value == CancelException(promise)
    IN IF s._settled[promise] THEN s
       ELSE _async(_async([s EXCEPT !._rejected[promise] = TRUE,
                                    !._settled[promise] = TRUE,
                                    !._rejected_reason[promise] = value,
                                    !.scheduled[promise] = @ + 1],
                          EmitTask(promise, "promise:cancelled", None)),
                   EmitTask(promise, "promise:rejected", value))

\* _cancel(promise)
_cancel(s, promise) ==
    LET value == CancelException(promise)
    IN IF s._settled[promise] THEN s
       ELSE LET s1 == [s EXCEPT !._rejected[promise] = TRUE,
                                !._settled[promise] = TRUE,
                                !._rejected_reason[promise] = value,
                                !.scheduled[promise] = @ + 1]
                s2 == _emit(s1, promise, "promise:cancelled", None)
            IN IF s2.exc THEN s2
               ELSE _async(s2, EmitTask(promise, "promise:rejected", value))

\* Promise.cancel that also cancels the promise self was derived from.
Promise_cancel_upward(s, self) ==
    IF ~s._settled[self]
    THEN LET s1 == _cancel(s, self)
         IN IF s.thens[self].parent # 0
            THEN _cancel(s1, s.thens[self].parent)
            ELSE s1
    ELSE s

\* Promise.cancel(self)
Promise_cancel(s, self) ==
    IF ~s._settled[self] THEN _cancel(s, self) ELSE s

\* The closures handed to value.then by the a-th adoption.
on_done(s, a, val) ==
    LET ad == s.adoptions[a]
    IN IF ad.resolved THEN s
       ELSE LET s1 == [s EXCEPT !.adoptions[a].resolved = TRUE]
            IN IF val # ThenableV(ad.value)
               THEN _resolve(s1, ad.promise, val)
               ELSE _fulfill(s1, ad.promise, val)

\* on_fail without the test of resolved[0].
on_fail_unguarded(s, a, val) ==
    _reject([s EXCEPT !.adoptions[a].resolved = TRUE],
            s.adoptions[a].promise, val)

on_fail(s, a, val) ==
    LET ad == s.adoptions[a]
    IN IF ad.resolved THEN s
       ELSE _reject([s EXCEPT !.adoptions[a].resolved = TRUE],
                    ad.promise, val)

on_progress(s, a, notification) ==
    _notify(s, s.adoptions[a].promise, notification)

\* One task of the scheduler's FIFO run to its end.
RunTimer(s, task) ==
    CASE task.k = "emit" ->
           LET s1 == IF task.tipe = "promise:notified"
                     THEN [s EXCEPT !.emitted[task.p] = @ + 1,
                                    !.lateEmitted[task.p] =
                                       IF s._settled[task.p] THEN @ + 1 ELSE @]
                     ELSE [s EXCEPT !.finalEmitted[task.p] = TRUE]
           IN _emit(s1, task.p, task.tipe, task.detail)
      [] task.k = "on_done" ->
           _invoke_callback(s, "_resolve", task.tp, task.cb,
                            s._fulfillment_value[task.p])
      [] task.k = "on_fail" ->
           _invoke_callback(s, "_reject", task.tp, task.cb,
                            s._rejected_reason[task.p])

(***************************************************************************)
(* The inputs the actions draw from.                                       *)
(***************************************************************************)
Executors == {"keep", "raise"}

\* What the user passes to resolve: a plain value, a Promise instance that
\* exists, or a foreign thenable.
PlainValues == {Plain(0)}
PromiseValues == {PromiseV(q) : q \in 1 .. nPromises}
ThenableValues == {ThenableV(k) : k \in Thenables}

\* What the user passes to reject: an exception, or an object that has a
\* then function.
RejectReasons == {Error(1), ThenableV(1)}

\* The arguments (done, fail) of the then calls that take no progress
\* callback: then(), then(f), catch(f), and calls whose done and fail both
\* raise, both return the then call's own promise, or both return a
\* foreign thenable.
ThenArgs ==
    { <<"None", "None", "None">>, <<"f", "None", "None">>,
      <<"None", "f", "None">>, <<"raise", "raise", "None">>,
      <<"own", "own", "None">>, <<"thenable", "thenable", "None">> }

\* The arguments of the then calls that take a progress callback or none:
\* then(), then(f, None, f), progress(raise), progress(resub).
ProgressArgs ==
    { <<"None", "None", "None">>, <<"f", "None", "f">>,
      <<"None", "None", "raise">>, <<"None", "None", "resub">> }

\* What the thenable of an adoption passes to on_done: a plain value,
\* itself, or another thenable; and what it passes to on_fail.
DoneValues(a) ==
    {Plain(0)} \cup
    (IF a \in 1 .. Len(adoptions)
     THEN {ThenableV(adoptions[a].value), ThenableV(3 - adoptions[a].value)}
     ELSE {})
FailReasons == {Error(2)}

\* The value of the n-th notify call on one promise: its number, so that
\* the order of the notifications can be read off their values.
Notification(p) == Plain(Len(notified[p]))

\* The on_cancel listeners registered so far: one per adoption started.
NumAdopt ==
    Cardinality({pi \in Promises \X (1 .. (MaxPromises + MaxAdopt + 1)) :
        /\ pi[2] <= Len(_events[pi[1]]["promise:cancelled"])
        /\ _events[pi[1]]["promise:cancelled"][pi[2]].k = "on_cancel"})

\* Passing value to _resolve starts no adoption beyond the bound.
AdoptOk(value) == isfunction_then(value) => NumAdopt < MaxAdopt

(***************************************************************************)
(* Initial state: no promise yet, nothing scheduled.                       *)
(***************************************************************************)
Init ==
    /\ nPromises = 0
    /\ _settled = [p \in Promises |-> FALSE]
    /\ _fulfilled = [p \in Promises |-> FALSE]
    /\ _rejected = [p \in Promises |-> FALSE]
    /\ _fulfillment_value = [p \in Promises |-> None]
    /\ _rejected_reason = [p \in Promises |-> None]
    /\ _events = [p \in Promises |-> NoEvents]
    /\ closures = {}
    /\ timers = << >>
    /\ adoptions = << >>
    /\ thens = [p \in Promises |-> NoThen]
    /\ calls = [p \in Promises |-> << >>]
    /\ reactions = [p \in Promises |-> 0]
    /\ order = << >>
    /\ scheduled = [p \in Promises |-> 0]
    /\ notified = [p \in Promises |-> << >>]
    /\ emitted = [p \in Promises |-> 0]
    /\ lateEmitted = [p \in Promises |-> 0]
    /\ finalEmitted = [p \in Promises |-> FALSE]
    /\ cancellerRan = [p \in Promises |-> 0]
    /\ cancelCalls = [k \in Thenables |-> 0]
    /\ uncaught = FALSE

(***************************************************************************)
(* Actions: one per call that enters the library.                          *)
(***************************************************************************)
\* The promises constructed by the user: those that no then call made.
Constructed == {p \in 1 .. nPromises : thens[p].parent = 0}

\* The user constructs Promise(executor, canceller).
New(executor, canceller) ==
    /\ nPromises < MaxPromises
    /\ Cardinality(Constructed) < MaxConstructed
    /\ isfunction(executor)
    /\ Commit(Promise__init__(Cur, executor, canceller))

\* The user calls the resolve closure of promise p.
ExecResolve(p, value) ==
    /\ p \in closures
    /\ AdoptOk(value)
    /\ Commit(_resolve(Cur, p, value))

\* The user calls the reject closure of promise p.
ExecReject(p, reason) ==
    /\ p \in closures
    /\ Commit(_reject(Cur, p, reason))

\* The user calls the notify closure of promise p.
ExecNotify(p) ==
    /\ p \in closures
    /\ Len(notified[p]) < MaxNotify
    /\ Commit(_notify(Cur, p, Notification(p)))

\* The user calls p.then(done, fail, progress); catch and progress are
\* then with some arguments None.
Then(p, done, fail, progress) ==
    /\ p \in 1 .. nPromises
    /\ nPromises < MaxPromises
    /\ Commit(Promise_then(Cur, p, done, fail, progress))

\* The user calls p.cancel().
Cancel(p) ==
    /\ p \in 1 .. nPromises
    /\ Commit(Promise_cancel(Cur, p))

\* The scheduler runs the oldest timer.
RunTask ==
    /\ timers # << >>
    /\ Commit(RunTimer([Cur EXCEPT !.timers = Tail(@)], Head(timers)))

\* The user registers a function of their own with _on(p, tipe, listener)
\* on a promise they constructed, at most one per event type.
On(p, tipe, listener) ==
    /\ p \in Constructed
    /\ \A i \in 1 .. Len(_events[p][tipe]) : _events[p][tipe][i].k # "user"
    /\ Commit(_on(Cur, p, tipe, Listener("user", p, listener)))

\* The thenable of the a-th adoption calls the on_done it was given.
ThenableDone(a, val) ==
    /\ a \in 1 .. Len(adoptions)
    /\ ~adoptions[a].resolved => AdoptOk(val)
    /\ Commit(on_done(Cur, a, val))

\* The thenable of the a-th adoption calls the on_fail it was given.
ThenableFail(a, val) ==
    /\ a \in 1 .. Len(adoptions)
    /\ Commit(on_fail(Cur, a, val))

\* The thenable of the a-th adoption calls the on_progress it was given.
ThenableProgress(a) ==
    /\ a \in 1 .. Len(adoptions)
    /\ Len(notified[adoptions[a].promise]) < MaxNotify
    /\ Commit(on_progress(Cur, a, Notification(adoptions[a].promise)))

Adoptions == 1 .. (MaxPromises + MaxAdopt)

(***************************************************************************)
(* Spec: settlement and chaining.  A promise is settled through its        *)
(* executor's closures or cancelled, and then calls derive promises from   *)
(* it, before or after it settles.                                         *)
(***************************************************************************)
Next ==
    \/ \E executor \in Executors, canceller \in Cancellers :
          New(executor, canceller)
    \/ \E p \in Promises, value \in PlainValues \cup PromiseValues :
          ExecResolve(p, value)
    \/ \E p \in Promises, reason \in RejectReasons : ExecReject(p, reason)
    \/ \E p \in Promises, args \in ThenArgs :
          Then(p, args[1], args[2], args[3])
    \/ \E p \in Promises : Cancel(p)
    \/ RunTask

Spec == Init /\ [][Next]_vars

(***************************************************************************)
(* SpecFair: settlement and then calls with two handlers under a fair      *)
(* scheduler: jsruntime runs every timer it was handed, so RunTask is not  *)
(* postponed for ever while a timer is pending.                            *)
(***************************************************************************)
\* then(), then(f, raise), then(raise, f): calls whose two handlers differ.
FairArgs ==
    { <<"None", "None", "None">>, <<"f", "raise", "None">>,
      <<"raise", "f", "None">> }

NextFair ==
    \/ New("keep", "None")
    \/ \E p \in Promises, value \in PlainValues : ExecResolve(p, value)
    \/ \E p \in Promises : ExecReject(p, Error(1))
    \/ \E p \in Promises, args \in FairArgs :
          Then(p, args[1], args[2], args[3])
    \/ \E p \in Promises : Cancel(p)
    \/ RunTask

SpecFair == Init /\ [][NextFair]_vars /\ WF_vars(RunTask)

(***************************************************************************)
(* SpecAdopt: adoption of foreign thenables.  A promise is resolved with   *)
(* a thenable, which later calls the closures it was given, while the      *)
(* user may still settle or cancel the promise.                            *)
(***************************************************************************)
NextAdopt ==
    \/ \E canceller \in Cancellers : New("keep", canceller)
    \/ \E p \in Promises, value \in PlainValues \cup PromiseValues
                                       \cup ThenableValues :
          ExecResolve(p, value)
    \/ \E p \in Promises, reason \in RejectReasons : ExecReject(p, reason)
    \/ \E p \in Promises : Then(p, "f", "None", "None")
    \/ \E p \in Promises : Cancel(p)
    \/ RunTask
    \/ \E a \in Adoptions : \E val \in DoneValues(a) : ThenableDone(a, val)
    \/ \E a \in Adoptions, val \in FailReasons : ThenableFail(a, val)

SpecAdopt == Init /\ [][NextAdopt]_vars

(***************************************************************************)
(* SpecProgress: progress notifications through then chains, with plain    *)
(* settlement and cancellation.                                            *)
(***************************************************************************)
NextProgress ==
    \/ New("keep", "None")
    \/ \E p \in Promises, value \in PlainValues : ExecResolve(p, value)
    \/ \E p \in Promises : ExecNotify(p)
    \/ \E p \in Promises, args \in ProgressArgs :
          Then(p, args[1], args[2], args[3])
    \/ \E p \in Promises : Cancel(p)
    \/ RunTask

SpecProgress == Init /\ [][NextProgress]_vars

(***************************************************************************)
(* SpecEmit: the event functions used directly.  The user registers        *)
(* listeners of their own, which may raise, next to those of then calls.   *)
(***************************************************************************)
UserListeners == {"raise", "f"}
UserEvents == {"promise:resolved", "promise:cancelled"}

NextEmit ==
    \/ New("keep", "None")
    \/ \E p \in Promises, tipe \in UserEvents, listener \in UserListeners :
          On(p, tipe, listener)
    \/ \E p \in Promises, value \in PlainValues : ExecResolve(p, value)
    \/ \E p \in Promises : Then(p, "f", "None", "None")
    \/ \E p \in Promises : Cancel(p)
    \/ RunTask

SpecEmit == Init /\ [][NextEmit]_vars

(***************************************************************************)
(* Properties.                                                             *)
(***************************************************************************)
\* The promise d was cancelled: _cancel(d) is what settled it.
Cancelled(d) == _rejected[d] /\ _rejected_reason[d] = CancelException(d)

\* The promises that then calls on p returned.
Derived(p) == {d \in 1 .. nPromises : thens[d].parent = p}

\* C1 (settle-once): in every step, a promise that is settled keeps its
\* state, its fulfilment value and its rejection reason, and no resolved or
\* rejected emission is scheduled for it; no promise is both fulfilled and
\* rejected, and none ever has a second such emission scheduled.
C1_SettleOnce ==
    [][\A p \in Promises :
          /\ _settled[p] =>
                /\ _settled'[p]
                /\ _fulfilled'[p] = _fulfilled[p]
                /\ _rejected'[p] = _rejected[p]
                /\ _fulfillment_value'[p] = _fulfillment_value[p]
                /\ _rejected_reason'[p] = _rejected_reason[p]
                /\ scheduled'[p] = scheduled[p]
          /\ scheduled'[p] <= 1
          /\ ~(_fulfilled'[p] /\ _rejected'[p])
          /\ _settled'[p] = (_fulfilled'[p] \/ _rejected'[p])]_vars

\* C1 witness: a promise cancelled while it adopted a thenable, whose
\* thenable then called on_done or on_fail: a second settlement, ignored.
C1_Witness ==
    \E p \in Promises :
        /\ Cancelled(p)
        /\ NumAdopt = 1
        /\ Len(adoptions) = 1
        /\ adoptions[1].promise = p
        /\ adoptions[1].resolved

\* C2 (thenable adoption), as claimed: a call of resolve on a pending
\* promise p with a value that is not p and exposes a callable then (a
\* foreign thenable or a Promise instance) never fulfils p with that value.
C2_ThenableAdoption ==
    [][\A p \in Promises, value \in PromiseValues \cup ThenableValues :
          ( /\ ~_settled[p]
            /\ value # PromiseV(p)
            /\ HasCallableThen(value)
            /\ ExecResolve(p, value) )
          => ~(_fulfilled'[p] /\ _fulfillment_value'[p] = value)]_vars

\* The reaction of the then call that made d has run and d was not
\* cancelled by the user.
Reacted(d) == reactions[d] > 0 /\ ~Cancelled(d)

\* C3 (rejection pass-through), as claimed: once the reaction of
\* d = p.then(done) or p.catch(), called without rejection handler on a
\* promise p rejected with r, has run, d is rejected with r, whatever r is.
C3_RejectionPassThrough ==
    \A d \in 1 .. nPromises :
        LET p == thens[d].parent
        IN ( /\ p # 0
             /\ ~isfunction(thens[d].fail)
             /\ _rejected[p]
             /\ Reacted(d) )
           => ( _rejected[d] /\ _rejected_reason[d] = _rejected_reason[p] )

\* d = p.then() without fulfilment handler, p fulfilled with a plain value.
PassThrough(d) ==
    /\ thens[d].parent # 0
    /\ ~isfunction(thens[d].done)
    /\ _fulfilled[thens[d].parent]
    /\ _fulfillment_value[thens[d].parent].t = "plain"

\* C4 (fulfilment pass-through): for d = p.then() on p fulfilled with the
\* plain value v, d not cancelled by the user: once the scheduler has no
\* timer left the reaction of d has run; once it has run, d is fulfilled
\* with v, is not rejected and had exactly one emission scheduled; and
\* e = d.then(f), once its reaction has run, is fulfilled with f(v).
C4_FulfilmentPassThrough ==
    \A d \in 1 .. nPromises :
        PassThrough(d) =>
            /\ (timers = << >>) => reactions[d] > 0
            /\ Reacted(d) =>
                  /\ _fulfilled[d] /\ ~_rejected[d]
                  /\ _fulfillment_value[d] =
                        _fulfillment_value[thens[d].parent]
                  /\ scheduled[d] = 1
                  /\ \A e \in Derived(d) :
                        (thens[e].done = "f" /\ Reacted(e)) =>
                            /\ _fulfilled[e] /\ ~_rejected[e]
                            /\ _fulfillment_value[e] =
                                  F(_fulfillment_value[thens[d].parent])
                            /\ scheduled[e] = 1

\* C4 witness: p fulfilled with v, d = p.then() fulfilled with v and
\* e = d.then(f) fulfilled with f(v).
C4_Witness ==
    \E d \in 1 .. nPromises, e \in 1 .. nPromises :
        /\ PassThrough(d) /\ Reacted(d)
        /\ e \in Derived(d) /\ thens[e].done = "f" /\ Reacted(e)
        /\ _fulfilled[e]
        /\ _fulfillment_value[e] = F(_fulfillment_value[thens[d].parent])

\* The calls of the callbacks of d so far that a late subscription on a
\* promise settled with outcome x may have made: none, or one call of the
\* callback h with x.
LateCalls(d, h, x) == {<< >>, <<[h |-> h, arg |-> x, raised |-> FALSE]>>,
                       <<[h |-> h, arg |-> x, raised |-> TRUE]>>}

\* C5 (late subscription): a call of then (a step that makes a promise)
\* calls no callback and runs no reaction; and for d = p.then(done, fail)
\* called on a settled p, d not cancelled by the user: the callbacks of d
\* were called at most once, and once the reaction of d has run, exactly
\* once: done with the fulfilment value of p if p is fulfilled and done is
\* a function, fail with the rejection reason if p is rejected and fail is
\* a function.
C5_LateSubscription ==
    [][ /\ nPromises' > nPromises =>
              calls' = calls /\ reactions' = reactions
        /\ \A d \in 1 .. nPromises' :
              LET p == thens'[d].parent
                  h == IF _fulfilled'[p] THEN "done" ELSE "fail"
                  cb == IF _fulfilled'[p] THEN thens'[d].done
                        ELSE thens'[d].fail
                  x == IF _fulfilled'[p] THEN _fulfillment_value'[p]
                       ELSE _rejected_reason'[p]
              IN (p # 0 /\ thens'[d].late /\ isfunction(cb)) =>
                    /\ calls'[d] \in LateCalls(d, h, x)
                    /\ (reactions'[d] > 0 /\ ~Cancelled(d)') =>
                          Len(calls'[d]) = 1 ]_vars

\* C5 witness: then(f) was called on a promise already fulfilled with x,
\* and f has been called with x.
C5_Witness ==
    \E d \in 1 .. nPromises :
        /\ thens[d].parent # 0 /\ thens[d].late
        /\ thens[d].done = "f"
        /\ _fulfilled[thens[d].parent]
        /\ calls[d] = <<[h |-> "done",
                         arg |-> _fulfillment_value[thens[d].parent],
                         raised |-> FALSE]>>

\* The listeners of kind k among those of event tipe of promise p.
Count(p, tipe, k, tp) ==
    Cardinality({i \in 1 .. Len(_events[p][tipe]) :
        _events[p][tipe][i].k = k /\ _events[p][tipe][i].tp = tp})

Delivered(d) ==
    LET sel == SelectSeq(calls[d], LAMBDA c : c.h = "progress")
    IN [i \in 1 .. Len(sel) |-> sel[i].arg]

\* The notifications of the parent of d emitted since d was made.
Due(d) ==
    SubSeq(notified[thens[d].parent], thens[d].regEmitted + 1,
           emitted[thens[d].parent])

\* The state part of C7.
ProgressDelivered ==
    \A p \in 1 .. nPromises :
        /\ emitted[p] <= Len(notified[p])
        /\ (timers = << >>) => emitted[p] = Len(notified[p])
        /\ \A d \in Derived(p) :
              (isfunction(thens[d].progress) /\ ~Cancelled(d)) =>
                  /\ thens[d].regEmitted <= thens[d].regNotified
                  /\ Delivered(d) = Due(d)

\* C7 (progress delivery): the values of the notify calls accepted by a
\* pending promise p are emitted in the order of the calls, all of them
\* once the scheduler has no timer left; the progress callback of every
\* d = p.then(.., .., progress) that the user did not cancel has been
\* called with exactly the values emitted since d was made, in that order,
\* which include every notify call made after d was made; and a notify
\* call on a settled promise schedules no emission.
C7_ProgressDelivery ==
    [][ /\ ProgressDelivered'
        /\ \A p \in Promises :
              _settled[p] => notified'[p] = notified[p] ]_vars

\* C7 witness: a progress callback has been called with the values of two
\* notify calls, in the order of the calls.
C7_Witness ==
    \E d \in 1 .. nPromises :
        /\ thens[d].parent # 0
        /\ thens[d].progress = "f"
        /\ ~Cancelled(d)
        /\ notified[thens[d].parent] = <<Plain(0), Plain(1)>>
        /\ Delivered(d) = <<Plain(0), Plain(1)>>

\* C8 (no progress after settlement), as claimed: no notified emission
\* runs on a promise that is settled.
C8_NoProgressAfterSettlement == \A p \in Promises : lateEmitted[p] = 0

\* C9 (error conversion): a promise whose done or fail callback raised is
\* rejected with the exception raised; no exception leaves a scheduled task
\* or a call of the user; and once the resolved or rejected emission of p
\* has run, the reaction of every then call made while p was pending has
\* run, whatever the callbacks of the others did.
C9_ErrorConversion ==
    /\ ~uncaught
    /\ \A d \in 1 .. nPromises :
          (\E i \in 1 .. Len(calls[d]) :
              calls[d][i].h \in {"done", "fail"} /\ calls[d][i].raised)
          => ( /\ _rejected[d] /\ ~_fulfilled[d]
               /\ _rejected_reason[d] = Error(0) )
    /\ \A p \in 1 .. nPromises :
          finalEmitted[p] =>
              \A d \in Derived(p) : ~thens[d].late => reactions[d] = 1

\* C9 witness: two then calls on one pending promise; the callback of the
\* first raised and the first is rejected with what it raised, and the
\* reaction of the second has run.
C9_Witness ==
    \E d \in 1 .. nPromises, e \in 1 .. nPromises :
        /\ d < e
        /\ thens[d].parent # 0 /\ thens[e].parent = thens[d].parent
        /\ ~thens[d].late /\ ~thens[e].late
        /\ Len(calls[d]) = 1 /\ calls[d][1].raised
        /\ _rejected[d] /\ _rejected_reason[d] = Error(0)
        /\ reactions[e] = 1

Last(seq) == seq[Len(seq)]

\* In this step the progress callback of d was called and raised.
ProgressRaised(d) ==
    /\ thens[d].parent # 0
    /\ Len(calls'[d]) = Len(calls[d]) + 1
    /\ Last(calls'[d]).h = "progress"
    /\ Last(calls'[d]).raised

\* C10 (progress-handler error isolation): in a step in which the progress
\* callback of d = p.then(.., .., progress) raises for a notification, d
\* stays pending and no notification is scheduled on d, no exception leaves
\* the emission, and every other pending promise made by then on p has its
\* progress listener run for that notification: its progress callback is
\* called with it, or without callback the notification is passed on.
C10_ProgressErrorIsolation ==
    [][\A d \in 1 .. nPromises :
          ProgressRaised(d) =>
              /\ ~_settled'[d] /\ ~_fulfilled'[d] /\ ~_rejected'[d]
              /\ notified'[d] = notified[d]
              /\ ~uncaught'
              /\ \A e \in Derived(thens[d].parent) \ {d} :
                    ~_settled[e] =>
                        IF isfunction(thens[e].progress)
                        THEN /\ Len(calls'[e]) = Len(calls[e]) + 1
                             /\ Last(calls'[e]).h = "progress"
                             /\ Last(calls'[e]).arg = Last(calls'[d]).arg
                        ELSE notified'[e] =
                                Append(notified[e], Last(calls'[d]).arg)]_vars

\* C10 witness: the progress callback of d raised, d is pending with no
\* notification of its own, and the progress callback of e, registered
\* after d on the same promise, was called with the same notification.
C10_Witness ==
    \E d \in 1 .. nPromises, e \in 1 .. nPromises :
        /\ d < e
        /\ thens[d].parent # 0 /\ thens[e].parent = thens[d].parent
        /\ thens[d].progress = "raise" /\ thens[e].progress = "f"
        /\ Len(calls[d]) > 0 /\ calls[d][1].raised
        /\ ~_settled[d] /\ notified[d] = << >>
        /\ Len(calls[e]) > 0 /\ calls[e][1].arg = calls[d][1].arg

\* p was fulfilled with itself.
SelfFulfilled(p) == _fulfilled[p] /\ _fulfillment_value[p] = PromiseV(p)

\* Neither callback of the then call that made d returns a thenable that
\* never settles.
SettlingArgs(d) == thens[d].done # "thenable" /\ thens[d].fail # "thenable"

\* The then chains on a promise fulfilled with itself: once the reaction
\* of d = p.then(..) has run, or no timer is left, d is settled, with p as
\* its fulfilment value if d has no fulfilment callback and was not
\* cancelled; and so is every e = d.then(..) once no timer is left.
SelfChain ==
    \A p \in 1 .. nPromises :
        SelfFulfilled(p) =>
            \A d \in Derived(p) :
                SettlingArgs(d) =>
                    /\ (timers = << >> \/ reactions[d] > 0) => _settled[d]
                    /\ (reactions[d] > 0 /\ ~isfunction(thens[d].done)
                          /\ ~Cancelled(d)) =>
                            /\ _fulfilled[d]
                            /\ _fulfillment_value[d] = PromiseV(p)
                    /\ \A e \in Derived(d) :
                          (SettlingArgs(e) /\ timers = << >>) => _settled[e]

\* C11 (self-resolution guard): a call of resolve on a pending promise p
\* with p itself fulfils p with p in that call, starts no adoption (no
\* value.then call, no listener added) and schedules the resolved emission
\* only; and every then chain on such a p settles: each reaction settles
\* its promise when it runs, and all have run once no timer is left.
C11_SelfResolution ==
    [][ /\ \A p \in Promises :
              (~_settled[p] /\ ExecResolve(p, PromiseV(p))) =>
                  /\ _fulfilled'[p] /\ ~_rejected'[p]
                  /\ _fulfillment_value'[p] = PromiseV(p)
                  /\ adoptions' = adoptions
                  /\ _events' = _events
                  /\ timers' = Append(timers,
                         EmitTask(p, "promise:resolved", PromiseV(p)))
        /\ SelfChain' ]_vars

\* C11 witness: p fulfilled with itself, d = p.then() fulfilled with p, and
\* e = d.then(f) settled, no timer left.
C11_Witness ==
    \E p \in 1 .. nPromises, d \in 1 .. nPromises, e \in 1 .. nPromises :
        /\ SelfFulfilled(p)
        /\ d \in Derived(p) /\ ~isfunction(thens[d].done)
        /\ _fulfilled[d] /\ _fulfillment_value[d] = PromiseV(p)
        /\ e \in Derived(d) /\ thens[e].done = "f"
        /\ _fulfilled[e]
        /\ timers = << >>

ReactionOrder ==
    /\ \A i \in 1 .. Len(order), j \in 1 .. Len(order) :
          (i # j) => order[i] # order[j]
    /\ \A d \in 1 .. nPromises, e \in 1 .. nPromises :
          ( /\ thens[d].parent # 0
            /\ thens[e].parent = thens[d].parent
            /\ d < e
            /\ \E j \in 1 .. Len(order) : order[j] = e )
          => \E i \in 1 .. Len(order), j \in 1 .. Len(order) :
                i < j /\ order[i] = d /\ order[j] = e

C14_ListenerIsolation ==
    /\ ~uncaught
    /\ \A p \in 1 .. nPromises :
          finalEmitted[p] =>
              \A d \in Derived(p) : ~thens[d].late => reactions[d] > 0

\* C15 (one-shot adoption): for the a-th adoption, of thenable V by the
\* pending promise P, the first call of on_done or on_fail decides: on_fail
\* rejects P with its argument, on_done with a plain value fulfils P with
\* it, and on_done with another thenable W leaves P pending and starts the
\* adoption of W by P; every later call of on_done or on_fail of that
\* adoption changes nothing at all, so that after on_done(W) a call of
\* on_fail does not reject P and P is settled through the adoption of W.
C15_OneShotAdoption ==
    [][\A a \in Adoptions :
          (a <= Len(adoptions)) =>
             LET P == adoptions[a].promise
                 V == adoptions[a].value
                 first == ~adoptions[a].resolved /\ ~_settled[P]
             IN /\ \A val \in DoneValues(a) :
                      /\ (adoptions[a].resolved /\ ThenableDone(a, val))
                            => UNCHANGED vars
                      /\ (first /\ val.t = "plain" /\ ThenableDone(a, val))
                            => ( /\ _fulfilled'[P]
                                 /\ _fulfillment_value'[P] = val )
                      /\ ( /\ first /\ val.t = "thenable" /\ val.v # V
                           /\ ThenableDone(a, val) )
                            => ( /\ ~_settled'[P]
                                 /\ adoptions' =
                                       Append([adoptions EXCEPT
                                                  ![a].resolved = TRUE],
                                              [promise |-> P, value |-> val.v,
                                               resolved |-> FALSE]) )
                /\ \A val \in FailReasons :
                      /\ (adoptions[a].resolved /\ ThenableFail(a, val))
                            => UNCHANGED vars
                      /\ (first /\ ThenableFail(a, val))
                            => ( /\ _rejected'[P]
                                 /\ _rejected_reason'[P] = val
                                 /\ adoptions'[a].resolved )]_vars

\* C15 witness: P adopted V, V called on_done with the pending thenable W,
\* P adopted W, and P is fulfilled with the value W passed to its on_done.
C15_Witness ==
    \E P \in Promises, V \in Thenables, W \in Thenables :
        /\ V # W
        /\ adoptions = <<[promise |-> P, value |-> V, resolved |-> TRUE],
                         [promise |-> P, value |-> W, resolved |-> TRUE]>>
        /\ _fulfilled[P] /\ _fulfillment_value[P] = Plain(0)
        /\ scheduled[P] = 1

\* A done or fail callback of d that returns d itself has been called.
ReturnedOwn(d) ==
    \E i \in 1 .. Len(calls[d]) :
        \/ calls[d][i].h = "done" /\ thens[d].done = "own"
        \/ calls[d][i].h = "fail" /\ thens[d].fail = "own"

\* C16 (own-promise return): a promise d made by then whose done or fail
\* callback was called and returned d itself is rejected with the TypeError
\* of _handle_thenable and is not fulfilled; no promise made by then is
\* ever fulfilled with itself; and d = p.then(own, own) is settled once p
\* is settled and no timer is left.
C16_OwnPromise ==
    \A d \in 1 .. nPromises :
        /\ ReturnedOwn(d) =>
              /\ _rejected[d] /\ ~_fulfilled[d]
              /\ _rejected_reason[d] = TypeError(d)
              /\ scheduled[d] = 1
        /\ thens[d].parent # 0 =>
              ~(_fulfilled[d] /\ _fulfillment_value[d] = PromiseV(d))
        /\ ( /\ thens[d].parent # 0
             /\ thens[d].done = "own" /\ thens[d].fail = "own"
             /\ _settled[thens[d].parent]
             /\ timers = << >> )
           => _settled[d]

\* C16 witness: the done callback of d returned d and d is rejected with
\* the TypeError, which e = d.then() has received.
C16_Witness ==
    \E d \in 1 .. nPromises, e \in 1 .. nPromises :
        /\ thens[d].done = "own" /\ Len(calls[d]) = 1
        /\ calls[d][1].h = "done"
        /\ _rejected[d] /\ _rejected_reason[d] = TypeError(d)
        /\ e \in Derived(d)
        /\ _rejected[e] /\ _rejected_reason[e] = TypeError(d)

\* C17 (reaction on a settled derived promise): in every step, a promise
\* d made by then that is settled has none of its callbacks called, keeps
\* its state and outcome, and is notified of nothing and has no emission
\* scheduled, whichever event of its parent reaches it.
C17_SettledReactionNoOp ==
    [][\A d \in Promises :
          (thens[d].parent # 0 /\ _settled[d]) =>
              /\ calls'[d] = calls[d]
              /\ _settled'[d]
              /\ _fulfilled'[d] = _fulfilled[d]
              /\ _rejected'[d] = _rejected[d]
              /\ _fulfillment_value'[d] = _fulfillment_value[d]
              /\ _rejected_reason'[d] = _rejected_reason[d]
              /\ notified'[d] = notified[d]
              /\ scheduled'[d] = scheduled[d]
              /\ _events'[d]["promise:cancelled"] =
                    _events[d]["promise:cancelled"]]_vars

\* C17 witness: d = p.then(f, None, f) was cancelled while p was pending;
\* since then a notified emission and the resolved emission of p have run,
\* the reaction of d was entered, and no callback of d was ever called.
C17_Witness ==
    \E d \in 1 .. nPromises :
        /\ thens[d].parent # 0 /\ ~thens[d].late
        /\ thens[d].done = "f" /\ thens[d].progress = "f"
        /\ Cancelled(d)
        /\ emitted[thens[d].parent] > thens[d].regEmitted
        /\ _fulfilled[thens[d].parent] /\ finalEmitted[thens[d].parent]
        /\ reactions[d] = 1
        /\ calls[d] = << >>

\* Everything of promise q except its history.
Object(q) ==
    << _settled[q], _fulfilled[q], _rejected[q], _fulfillment_value[q],
       _rejected_reason[q], _events[q], scheduled[q], cancellerRan[q] >>

\* The parent of the cancelled promise d, if pending, is still settled by
\* its resolve and reject closures: resolve(v) fulfils it with v and
\* reject(r) rejects it with r, and either schedules its emission.
ParentOpen(d) ==
    LET p == thens[d].parent
        v == Plain(0)
        r == Error(1)
        sv == _resolve(Cur, p, v)
        sr == _reject(Cur, p, r)
    IN (Cancelled(d) /\ ~_settled[p] /\ p \in closures) =>
          /\ sv._fulfilled[p] /\ sv._fulfillment_value[p] = v
          /\ sv.timers = Append(timers, EmitTask(p, "promise:resolved", v))
          /\ sr._rejected[p] /\ sr._rejected_reason[p] = r
          /\ sr.timers = Append(timers, EmitTask(p, "promise:rejected", r))

\* C18 (cancellation does not travel up): the step in which a pending
\* promise d made by p.then(..) is cancelled rejects d with its
\* CancelException and schedules the rejected emission of d only; every
\* other promise, p included, keeps its state, outcome and listeners and no
\* canceller runs, and no callback is called.  Afterwards p is still
\* settled by its closures, and once its emission has run the reaction of
\* every then call made while p was pending has run.
C18_NoUpwardCancel ==
    /\ [][\A d \in Promises :
             (thens[d].parent # 0 /\ ~_settled[d] /\ Cancel(d)) =>
                 /\ Cancelled(d)'
                 /\ \A q \in Promises \ {d} : Object(q)' = Object(q)
                 /\ cancellerRan' = cancellerRan
                 /\ closures' = closures
                 /\ calls' = calls /\ reactions' = reactions
                 /\ timers' = Append(timers,
                        EmitTask(d, "promise:rejected", CancelException(d)))
       ]_vars
    /\ [](\A d \in 1 .. nPromises :
             /\ thens[d].parent # 0 => ParentOpen(d)
             /\ (thens[d].parent # 0 /\ finalEmitted[thens[d].parent]) =>
                   \A e \in Derived(thens[d].parent) :
                       ~thens[e].late => reactions[e] = 1)

\* C18 witness: p has a canceller; d = p.then(f) was cancelled before its
\* reaction ran; the canceller of p never ran, p is fulfilled, and
\* e = p.then(f), made while p was pending, is fulfilled with f of p's value.
C18_Witness ==
    \E d \in 1 .. nPromises, e \in 1 .. nPromises :
        LET p == thens[d].parent
        IN /\ p # 0 /\ d # e /\ thens[e].parent = p
           /\ ~thens[d].late /\ ~thens[e].late
           /\ thens[d].done = "f" /\ thens[e].done = "f"
           /\ Cancelled(d) /\ calls[d] = << >> /\ reactions[d] = 1
           /\ Count(p, "promise:cancelled", "tryer", p) = 1
           /\ cancellerRan[p] = 0
           /\ _fulfilled[p]
           /\ _fulfilled[e] /\ _fulfillment_value[e] = F(_fulfillment_value[p])

\* The calls of the done and fail callbacks of d.
Handled(d) == SelectSeq(calls[d], LAMBDA c : c.h \in {"done", "fail"})

\* The state part of C19.
OneReaction ==
    \A d \in 1 .. nPromises :
        LET p == thens[d].parent
            cs == Handled(d)
        IN p # 0 =>
              /\ ~(_fulfilled[p] /\ _rejected[p])
              /\ reactions[d] <= 1
              /\ Len(cs) <= 1
              /\ Len(cs) <= reactions[d]
              /\ \A i \in 1 .. Len(cs) :
                    IF cs[i].h = "done"
                    THEN /\ _fulfilled[p] /\ isfunction(thens[d].done)
                         /\ cs[i].arg = _fulfillment_value[p]
                    ELSE /\ _rejected[p] /\ isfunction(thens[d].fail)
                         /\ cs[i].arg = _rejected_reason[p]
              /\ (reactions[d] = 1 /\ ~Cancelled(d)) =>
                    Len(cs) = IF \/ _fulfilled[p] /\ isfunction(thens[d].done)
                                 \/ _rejected[p] /\ isfunction(thens[d].fail)
                              THEN 1 ELSE 0

\* d was made by then on a promise that is settled, and d is pending.
ReactionDue(d) ==
    /\ d <= nPromises
    /\ thens[d].parent # 0
    /\ _settled[thens[d].parent]
    /\ ~_settled[d]

Adopting(p) ==
    /\ ~_settled[p]
    /\ \E a \in 1 .. Len(adoptions) :
          adoptions[a].promise = p /\ ~adoptions[a].resolved

\* C20 (adoption lock-in), as claimed: while p is adopting a thenable that
\* is still pending, a call of p's resolve closure with a plain value or of
\* its reject closure does not settle p.
C20_AdoptionLockIn ==
    [][\A p \in Promises :
          Adopting(p) =>
              /\ \A value \in PlainValues :
                    ExecResolve(p, value) => ~_settled'[p]
              /\ \A reason \in RejectReasons :
                    ExecReject(p, reason) => ~_settled'[p]]_vars

====
